---- MODULE Spec2Model ----
(***************************************************************************)
(* Model of packages/react/src/container/NodeRenderer/index.tsx:           *)
(* NodeRenderer (the collection coordinator) and NodeComponentWrapper      *)
(* (the per-node presenter), with the store subscriptions, the memoised    *)
(* ResizeObserver and its batch callback.                                  *)
(*                                                                         *)
(* JavaScript values are encoded as follows.  An optional value            *)
(* (T | undefined) is a sequence of length 0 or 1: None is undefined,      *)
(* Some(v) is v.  Object identity is a version number carried by the       *)
(* object (field ver): Object.is(a, b) iff the versions are equal.         *)
(***************************************************************************)
EXTENDS Integers, Sequences, FiniteSets, TLC

None == <<>>
Some(v) == <<v>>
IsSome(o) == Len(o) = 1

\* JS truthiness of an optional boolean: only true is truthy.
TruthyBool(o) == o = Some(TRUE)
\* JS truthiness of an optional number: undefined and 0 are falsy.
TruthyNum(o) == IsSome(o) /\ o[1] # 0
\* JS truthiness of an optional string: undefined and "" are falsy.
TruthyStr(o) == IsSome(o) /\ o[1] # ""
\* a ?? b on optional values.
Nullish(a, b) == IF IsSome(a) THEN a ELSE b

----------------------------------------------------------------------------
(* Geometry helpers of @xyflow/system, used at lines 171-183.              *)

Min(a, b) == IF a < b THEN a ELSE b
Max(a, b) == IF a > b THEN a ELSE b

\* clamp(val, min, max) = Math.min(Math.max(val, min), max)
clamp(val, lo, hi) == Min(Max(val, lo), hi)

\* clampPosition(position = {x: 0, y: 0}, extent): the default parameter
\* replaces an undefined position by the origin BEFORE clamping.
\* extent is <<<<x0, y0>>, <<x1, y1>>>>.
clampPosition(position, extent) ==
    LET p == IF IsSome(position) THEN position[1] ELSE [x |-> 0, y |-> 0]
    IN  [x |-> clamp(p.x, extent[1][1], extent[2][1]),
         y |-> clamp(p.y, extent[1][2], extent[2][2])]

\* getPositionWithOrigin({x, y, width, height, origin = [0, 0]})
getPositionWithOrigin(x, y, width, height, origin) ==
    LET o == IF IsSome(origin) THEN origin[1] ELSE <<0, 0>>
    IN  IF \/ width = 0 \/ height = 0
           \/ o[1] < 0 \/ o[2] < 0 \/ o[1] > 1 \/ o[2] > 1
        THEN [x |-> x, y |-> y]
        ELSE [x |-> x - width * o[1], y |-> y - height * o[2]]

\* errorMessages['error003'](nodeType): the message is built from the type
\* name; it is kept as the pair (template, argument).
error003(nodeType) == <<"error003", nodeType>>

----------------------------------------------------------------------------
(* NodeComponentWrapper, lines 132-227: one render of the presenter.       *)

\* The members a plain object inherits from Object.prototype.
InheritedMembers ==
    { "constructor", "toString", "toLocaleString", "valueOf", "hasOwnProperty",
      "isPrototypeOf", "propertyIsEnumerable", "__proto__", "__defineGetter__",
      "__defineSetter__", "__lookupGetter__", "__lookupSetter__" }

\* The (truthy) value of an inherited member.
InheritedValue(name) == "Object.prototype." \o name

\* props.nodeTypes[nodeType]: the registry is a plain object, a function
\* from its own keys (the type names) to component references; the property
\* read also finds the members the object inherits, and is undefined for
\* every other name.
RegistryLookup(nodeTypes, name) ==
    IF name \in DOMAIN nodeTypes THEN Some(nodeTypes[name])
    ELSE IF name \in InheritedMembers THEN Some(InheritedValue(name))
    ELSE None

\* Can React render an element of this type?  Not an undefined type, and of
\* the inherited members only toString, which returns a string when called
\* as a function component: Object.prototype itself is no component,
\* Object(props) returns an object, which is no valid child, and the other
\* methods throw a TypeError on the undefined this.
Renderable(component) ==
    /\ IsSome(component)
    /\ component[1] \notin {InheritedValue(m) : m \in InheritedMembers \ {"toString"}}

\* line 157: node.type || 'default'
InitialNodeType(node) == IF TruthyStr(node.type) THEN node.type[1] ELSE "default"

\* lines 159-163: is the resolved name missing from the registry?
TypeMissing(props, node) ==
    ~IsSome(RegistryLookup(props.nodeTypes, InitialNodeType(node)))

\* line 160: props.onError?.('003', errorMessages['error003'](nodeType)):
\* the calls made on the error callback by one render.
ErrorCalls(props, node) ==
    IF TypeMissing(props, node) /\ IsSome(props.onError)
    THEN << [callback |-> props.onError[1], code |-> "003",
             message |-> error003(InitialNodeType(node))] >>
    ELSE << >>

\* lines 157-163: the value of nodeType after the if.
ResolvedNodeType(props, node) ==
    IF TypeMissing(props, node) THEN "default" ELSE InitialNodeType(node)

\* line 165: props.nodeTypes[nodeType] || props.nodeTypes.default
NodeComponent(props, node) ==
    Nullish(RegistryLookup(props.nodeTypes, ResolvedNodeType(props, node)),
            RegistryLookup(props.nodeTypes, "default"))

\* The collection flag OR-ed with the node's value, whatever the latter is.
CapabilityOr(nodeValue, collectionFlag) ==
    TruthyBool(nodeValue) \/ collectionFlag

\* lines 166-169: !!(node.value || (collectionFlag && typeof node.value === 'undefined'))
Capability(nodeValue, collectionFlag) ==
    TruthyBool(nodeValue) \/ (collectionFlag /\ ~IsSome(nodeValue))

\* The absolute position passed through whether or not an extent is set.
ClampedPositionIgnoringExtent(props, node) == node.positionAbsolute

\* lines 171-173
ClampedPosition(props, node) ==
    IF IsSome(props.nodeExtent)
    THEN Some(clampPosition(node.positionAbsolute, props.nodeExtent[1]))
    ELSE node.positionAbsolute

\* The x coordinate read from the node's own position, not the clamped one.
PosXFromNode(props, node) ==
    IF IsSome(node.positionAbsolute) THEN node.positionAbsolute[1].x ELSE 0

\* lines 175-176: clampedPosition?.x ?? 0, clampedPosition?.y ?? 0
PosX(props, node) ==
    IF IsSome(ClampedPosition(props, node)) THEN ClampedPosition(props, node)[1].x ELSE 0
PosY(props, node) ==
    IF IsSome(ClampedPosition(props, node)) THEN ClampedPosition(props, node)[1].y ELSE 0

\* lines 177-183
PosOrigin(props, node) ==
    getPositionWithOrigin(
        PosX(props, node), PosY(props, node),
        Nullish(node.computedWidth, Nullish(node.width, Some(0)))[1],
        Nullish(node.computedHeight, Nullish(node.height, Some(0)))[1],
        IF IsSome(node.origin) THEN node.origin ELSE props.nodeOrigin)

\* Initialized as soon as either pair has one truthy dimension.
InitializedAnyDimension(node) ==
    \/ TruthyNum(node.computedWidth) \/ TruthyNum(node.computedHeight)
    \/ TruthyNum(node.width) \/ TruthyNum(node.height)

\* line 184
Initialized(node) ==
    \/ TruthyNum(node.computedWidth) /\ TruthyNum(node.computedHeight)
    \/ TruthyNum(node.width) /\ TruthyNum(node.height)

\* The observer withheld from the visual component.
ObserverNotForwarded(props) == None

\* line 215: resizeObserver={props.resizeObserver}
ForwardedObserver(props) == props.resizeObserver

\* lines 186-226: the element returned, i.e. the visual component and the
\* props it is invoked with.
NodeElement(props, node) ==
    [ component        |-> NodeComponent(props, node),
      id               |-> node.id,
      type             |-> ResolvedNodeType(props, node),
      width            |-> node.width,
      height           |-> node.height,
      xPos             |-> PosX(props, node),
      yPos             |-> PosY(props, node),
      xPosOrigin       |-> PosOrigin(props, node).x,
      yPosOrigin       |-> PosOrigin(props, node).y,
      positionAbsolute |-> IF IsSome(ClampedPosition(props, node))
                           THEN ClampedPosition(props, node)[1]
                           ELSE [x |-> 0, y |-> 0],
      selected         |-> TruthyBool(node.selected),
      isDraggable      |-> Capability(node.draggable, props.nodesDraggable),
      isSelectable     |-> Capability(node.selectable, props.elementsSelectable),
      isConnectable    |-> Capability(node.connectable, props.nodesConnectable),
      isFocusable      |-> Capability(node.focusable, props.nodesFocusable),
      resizeObserver   |-> ForwardedObserver(props),
      initialized      |-> Initialized(node) ]

\* A presenter without the guard of line 155: reading node.type of
\* undefined throws a TypeError.
WrapperWithoutGuard(props, lookedUp) ==
    IF ~IsSome(lookedUp)
    THEN [element |-> None, errors |-> << >>, thrown |-> TRUE]
    ELSE [element |-> Some(NodeElement(props, lookedUp[1])),
          errors  |-> ErrorCalls(props, lookedUp[1]),
          thrown  |-> ~Renderable(NodeComponent(props, lookedUp[1]))]

\* One render of NodeComponentWrapper with the looked-up node (None when
\* s.nodeLookup.get(props.id) is undefined, lines 154-155).  The result is
\* the element returned (None for null), the calls made on the error
\* callback, and whether the render throws: React throws when it cannot
\* render the element returned.
NodeComponentWrapper(props, lookedUp) ==
    IF ~IsSome(lookedUp)
    THEN [element |-> None, errors |-> << >>, thrown |-> FALSE]
    ELSE [element |-> Some(NodeElement(props, lookedUp[1])),
          errors  |-> ErrorCalls(props, lookedUp[1]),
          thrown  |-> ~Renderable(NodeComponent(props, lookedUp[1]))]

----------------------------------------------------------------------------
(* Bounds of the model.                                                    *)

\* Events of the environment in one behaviour: store writes, parent renders
\* with changed props, and deliveries of a measurement batch.
MaxEvents == 2

NodeIds == {"n1", "n2"}
Flags == {"nodesDraggable", "nodesConnectable", "nodesFocusable", "elementsSelectable"}

\* The type registries (props.nodeTypes) a parent may supply; each contains
\* a "default" entry.
StandardTypes == [default |-> "DefaultNode"]
CustomTypes == [default |-> "DefaultNode", custom |-> "CustomNode"]

\* A node record of the store.  ver is the identity of the record object;
\* inViewport abstracts the viewport intersection test of the id-list
\* provider.
BaseNode(id, ver) ==
    [ id |-> id, ver |-> ver, type |-> None,
      draggable |-> None, selectable |-> None, connectable |-> None, focusable |-> None,
      positionAbsolute |-> Some([x |-> 10, y |-> 20]),
      computedWidth |-> None, computedHeight |-> None,
      width |-> Some(100), height |-> Some(50),
      origin |-> None, selected |-> None, inViewport |-> TRUE ]

\* The field values the environment writes into a node in the lifecycle
\* specification: the base record, and a node of type "custom" that pins
\* its draggability and lies outside the viewport.
NodeVariants(id, ver) ==
    { BaseNode(id, ver),
      [BaseNode(id, ver) EXCEPT !.type = Some("custom"), !.draggable = Some(FALSE),
                                !.inViewport = FALSE] }

\* The props the parent (GraphView) may pass to NodeRenderer.
BaseProps ==
    [ nodeTypes |-> StandardTypes, nodeExtent |-> None, nodeOrigin |-> Some(<<0, 0>>),
      onlyRenderVisibleElements |-> FALSE ]
PropChoices ==
    { BaseProps,
      [BaseProps EXCEPT !.nodeTypes = CustomTypes],
      [BaseProps EXCEPT !.onlyRenderVisibleElements = TRUE] }

----------------------------------------------------------------------------
(* State.                                                                  *)

VARIABLES
    store,        \* the zustand store: nodeLookup, its key order, the flags,
                  \* updateNodeDimensions and onError
    hasRO,        \* typeof ResizeObserver !== 'undefined'
    parentProps,  \* the props the parent currently passes to NodeRenderer
    coord,        \* the NodeRenderer instance: phase, hook state, last render
    children,     \* keys of the NodeComponentWrapper elements last returned
    childProps,   \* the props those elements carry (apart from id)
    pres,         \* per node id: the NodeComponentWrapper instance
    observers,    \* the ResizeObserver instances constructed so far
    measure,      \* the last callback batch, the store calls it issued, and
                  \* the store's updateNodeDimensions (current) at that time
    events,       \* the number of environment events so far
    rIn, rOut     \* input and results of the stand-alone presenter render

vars == << store, hasRO, parentProps, coord, children, childProps, pres,
           observers, measure, events, rIn, rOut >>

lifecycleVars == << store, hasRO, parentProps, coord, children, childProps, pres,
                    observers, measure, events >>

----------------------------------------------------------------------------
(* Store subscriptions.                                                    *)

\* selector, lines 30-37
selector(s) ==
    [ nodesDraggable       |-> s.nodesDraggable,
      nodesConnectable     |-> s.nodesConnectable,
      nodesFocusable       |-> s.nodesFocusable,
      elementsSelectable   |-> s.elementsSelectable,
      updateNodeDimensions |-> s.updateNodeDimensions,
      onError              |-> s.onError ]

\* zustand's shallow on two objects or arrays: same keys, each value
\* Object.is-equal.  Field values here are primitives or identities.
shallow(a, b) == a = b

\* Object.is on the results of two selector calls: the selector builds a
\* fresh object (or array) on every call, so they are never identical.
ObjectIsFresh(a, b) == FALSE

\* An equality that compares the two function fields of the slice only.
SliceEqualityIgnoringFlags(a, b) ==
    a.updateNodeDimensions = b.updateNodeDimensions /\ a.onError = b.onError

\* line 41: the equality passed to useStore(selector, ...).
SliceEquality(a, b) == shallow(a, b)

\* useVisibleNodesIds(onlyRenderVisibleElements): the keys of nodeLookup in
\* insertion order, restricted to the nodes inside the viewport when the
\* flag is set; the hook gates re-renders with shallow.
VisibleNodeIds(s, onlyVisible) ==
    SelectSeq(s.order, LAMBDA id : ~onlyVisible \/ s.nodeLookup[id][1].inViewport)

\* line 154: the presenter's selector, s.nodeLookup.get(props.id).
NodeSelector(s, id) == s.nodeLookup[id]

\* Object.is on two lookup results: both undefined, or the same object.
SameNode(a, b) ==
    IF IsSome(a) /\ IsSome(b) THEN a[1].ver = b[1].ver ELSE IsSome(a) = IsSome(b)

\* The presenter subscription of id across a store write from s to t:
\* useStore((s) => s.nodeLookup.get(props.id)) with the default Object.is
\* equality schedules a re-render iff the looked-up record changes identity.
PresenterNotifiedByAnyNode(s, t, id) ==
    \E j \in NodeIds : ~SameNode(s.nodeLookup[j], t.nodeLookup[j])
PresenterNotified(s, t, id) ==
    ~SameNode(NodeSelector(s, id), NodeSelector(t, id))

\* The coordinator subscriptions across a store write from s to t
\* (lines 40-42): the slice gated by the equality of line 41, and the id
\* list gated by shallow inside useVisibleNodesIds.
CoordNotified(s, t, onlyVisible) ==
    \/ ~SliceEquality(selector(s), selector(t))
    \/ ~shallow(VisibleNodeIds(s, onlyVisible), VisibleNodeIds(t, onlyVisible))

----------------------------------------------------------------------------
(* Initial state.                                                          *)

InitialStore(present) ==
    [ nodeLookup |-> [id \in NodeIds |-> IF id \in present THEN Some(BaseNode(id, 0)) ELSE None],
      order      |-> IF "n2" \in present THEN <<"n1", "n2">> ELSE <<"n1">>,
      nodesDraggable |-> TRUE, nodesConnectable |-> TRUE,
      nodesFocusable |-> TRUE, elementsSelectable |-> TRUE,
      updateNodeDimensions |-> 1,
      onError |-> Some("onError") ]

NoPresenter ==
    [mounted |-> FALSE, renders |-> 0, dirty |-> FALSE,
     node |-> None, props |-> None, out |-> None]

InitLifecycle ==
    /\ \E present \in {{"n1"}, {"n1", "n2"}} : store = InitialStore(present)
    /\ hasRO \in BOOLEAN
    /\ parentProps = BaseProps
    /\ coord = [phase |-> "initial", renders |-> 0, dirty |-> FALSE,
                props |-> None, resizeObserver |-> None, resizeObserverRef |-> None]
    /\ children = << >>
    /\ childProps = None
    /\ pres = [id \in NodeIds |-> NoPresenter]
    /\ observers = << >>
    /\ measure = [batch |-> << >>, calls |-> << >>, invocations |-> 0, issued |-> 0,
                  phase |-> "initial", current |-> 0]
    /\ events = 0

Init ==
    /\ InitLifecycle
    /\ rIn = None
    /\ rOut = << >>

----------------------------------------------------------------------------
(* Store writes (the environment).                                         *)

\* What a store write from store to t does to the subscribers: the
\* coordinator's and the rendered presenters' subscriptions schedule a
\* render when their selected value changes.
Subscribers(t) ==
    /\ coord' = [coord EXCEPT !.dirty =
            IF coord.phase = "mounted"
            THEN @ \/ CoordNotified(store, t, coord.props[1].onlyRenderVisibleElements)
            ELSE @]
    /\ pres' = [id \in NodeIds |->
            IF pres[id].mounted /\ pres[id].renders > 0
            THEN [pres[id] EXCEPT !.dirty = @ \/ PresenterNotified(store, t, id)]
            ELSE pres[id]]

\* A store write from store to t while NodeRenderer is mounted, and what it
\* does to the subscribers (writes before the mount and after the unmount
\* have no subscriber in this layer).
Notify(t) ==
    /\ coord.phase = "mounted"
    /\ events < MaxEvents
    /\ store' = t
    /\ events' = events + 1
    /\ Subscribers(t)
    /\ UNCHANGED << hasRO, parentProps, children, childProps, observers, measure, rIn, rOut >>

\* The identity of a record object created by the next write.
FreshVer == events + 1

RemoveFromSeq(q, id) == SelectSeq(q, LAMBDA x : x # id)

AddNode(id) ==
    /\ ~IsSome(store.nodeLookup[id])
    /\ \E n \in NodeVariants(id, FreshVer) :
          Notify([store EXCEPT !.nodeLookup[id] = Some(n), !.order = Append(@, id)])

RemoveNode(id) ==
    /\ IsSome(store.nodeLookup[id])
    /\ Notify([store EXCEPT !.nodeLookup[id] = None, !.order = RemoveFromSeq(@, id)])

\* A node is replaced by a new record object (same or different field
\* values); its position in the lookup's key order is kept.
ReplaceNode(id) ==
    /\ IsSome(store.nodeLookup[id])
    /\ \E n \in NodeVariants(id, FreshVer) :
          Notify([store EXCEPT !.nodeLookup[id] = Some(n)])

SetFlag(f) ==
    /\ Notify([store EXCEPT ![f] = ~@])

\* The size the platform reports for a node's element.
Measured == [width |-> 120, height |-> 60]

\* The store's updateNodeDimensions(updates): one store update in which
\* every id of the mapping that has a record gets a new record object
\* carrying the measured size of the staged element (forceUpdate is true);
\* the store is left alone when no id of the mapping has a record.
UpdateNodeDimensions(s, updates, ver) ==
    [s EXCEPT !.nodeLookup =
        [id \in NodeIds |->
            IF id \in DOMAIN updates /\ IsSome(s.nodeLookup[id])
            THEN Some([s.nodeLookup[id][1] EXCEPT
                          !.computedWidth = Some(Measured.width),
                          !.computedHeight = Some(Measured.height),
                          !.ver = ver])
            ELSE s.nodeLookup[id]]]

\* The store after the first n of a sequence of updateNodeDimensions calls.
RECURSIVE StoreAfterCalls(_, _, _, _)
StoreAfterCalls(s, calls, n, ver) ==
    IF n = 0 THEN s
    ELSE UpdateNodeDimensions(StoreAfterCalls(s, calls, n - 1, ver),
                              calls[n].updates, ver)

\* The store replaces its updateNodeDimensions function.
SetUpdateNodeDimensions ==
    /\ Notify([store EXCEPT !.updateNodeDimensions = @ + 1])

\* The onError callback is removed or configured.
SetOnError ==
    /\ Notify([store EXCEPT !.onError = IF IsSome(@) THEN None ELSE Some("onError")])

----------------------------------------------------------------------------
(* ResizeObserver callback, lines 50-63.                                   *)

\* A DOM element observed for node id; data-id is the attribute read at
\* line 54.
Element(id) == [dataId |-> id, el |-> id]

\* updates.set(id, {id, nodeElement, forceUpdate: true}) on a Map kept as a
\* function from its keys to its values.
MapSet(m, k, v) == [x \in DOMAIN m \cup {k} |-> IF x = k THEN v ELSE m[x]]
EmptyMap == [x \in {} |-> x]

\* A staging loop that keeps the first entry of an id instead of the last.
RECURSIVE StageEntriesFirstWins(_, _)
StageEntriesFirstWins(entries, n) ==
    IF n = 0 THEN EmptyMap
    ELSE LET staged == StageEntriesFirstWins(entries, n - 1)
         IN  IF entries[n].target.dataId \in DOMAIN staged THEN staged
             ELSE MapSet(staged,
                         entries[n].target.dataId,
                         [ id          |-> entries[n].target.dataId,
                           nodeElement |-> entries[n].target,
                           forceUpdate |-> TRUE ])

\* lines 53-60: entries.forEach(...) over the first n entries.
RECURSIVE StageEntries(_, _)
StageEntries(entries, n) ==
    IF n = 0 THEN EmptyMap
    ELSE MapSet(StageEntries(entries, n - 1),
                entries[n].target.dataId,
                [ id          |-> entries[n].target.dataId,
                  nodeElement |-> entries[n].target,
                  forceUpdate |-> TRUE ])

\* A callback that flushes inside the loop: one call per entry, each with
\* the mapping staged so far.
FlushPerEntry(fn, entries) ==
    [i \in 1..Len(entries) |-> [fn |-> fn, updates |-> StageEntries(entries, i)]]

\* A callback that calls the store's updateNodeDimensions of the moment
\* instead of the function it closed over.
CallsOnCurrentFunction(fn, entries) ==
    << [fn |-> store.updateNodeDimensions,
        updates |-> StageEntries(entries, Len(entries))] >>

\* lines 50-63: the calls the callback makes on the updateNodeDimensions
\* function fn it closed over, for one batch of entries.
ObserverCallbackCalls(fn, entries) ==
    << [fn |-> fn, updates |-> StageEntries(entries, Len(entries))] >>

----------------------------------------------------------------------------
(* NodeRenderer, lines 39-130.                                             *)

\* useMemo(..., []) at lines 45-68: the factory runs on the first render
\* only.
RecomputeEveryRender(firstRender) == TRUE
UseMemoRuns(firstRender) == firstRender

\* The factory without the typeof guard of lines 46-48.
MemoFactoryUnguarded(slice) ==
    [observers |-> Append(observers,
                          [fn |-> slice.updateNodeDimensions,
                           targets |-> {}, disconnects |-> 0]),
     value |-> Some(Len(observers) + 1), constructed |-> TRUE]

\* lines 46-67: the factory's result given the observers constructed so far:
\* the observers afterwards and the value returned.
MemoFactory(slice) ==
    IF ~hasRO
    THEN [observers |-> observers, value |-> None, constructed |-> FALSE]
    ELSE [observers |-> Append(observers,
                               [fn |-> slice.updateNodeDimensions,
                                targets |-> {}, disconnects |-> 0]),
          value |-> Some(Len(observers) + 1), constructed |-> TRUE]

\* lines 78-127: the keys of the elements returned for the id list.
DropLastKey(nodeIds) == IF nodeIds = << >> THEN << >> ELSE SubSeq(nodeIds, 1, Len(nodeIds) - 1)
ChildKeys(nodeIds) == nodeIds

\* lines 103-125: the props every NodeComponentWrapper element carries.
ChildProps(props, slice, resizeObserver) ==
    [ nodeTypes          |-> props.nodeTypes,
      nodeExtent         |-> props.nodeExtent,
      nodeOrigin         |-> props.nodeOrigin,
      resizeObserver     |-> resizeObserver,
      nodesDraggable     |-> slice.nodesDraggable,
      nodesConnectable   |-> slice.nodesConnectable,
      nodesFocusable     |-> slice.nodesFocusable,
      elementsSelectable |-> slice.elementsSelectable,
      onError            |-> slice.onError ]

SeqToSet(q) == {q[i] : i \in 1..Len(q)}

\* One render of NodeRenderer (first = the mounting render).
RenderCoordinator(first) ==
    LET slice   == selector(store)
        nodeIds == VisibleNodeIds(store, parentProps.onlyRenderVisibleElements)
        memo    == IF UseMemoRuns(first)
                   THEN MemoFactory(slice)
                   ELSE [observers |-> observers, value |-> coord.resizeObserver,
                         constructed |-> FALSE]
        keys    == ChildKeys(nodeIds)
    IN  /\ coord' = [coord EXCEPT
                        !.phase = "mounted", !.renders = @ + 1, !.dirty = FALSE,
                        !.props = Some(parentProps),
                        !.resizeObserver = memo.value,
                        !.resizeObserverRef =
                            IF memo.constructed THEN memo.value ELSE @]
        /\ children' = keys
        /\ childProps' = Some(ChildProps(parentProps, slice, memo.value))
        /\ pres' = [id \in NodeIds |->
                       IF id \in SeqToSet(keys)
                       THEN IF pres[id].mounted THEN pres[id]
                            ELSE [NoPresenter EXCEPT !.mounted = TRUE]
                       ELSE NoPresenter]
        /\ observers' = memo.observers
        /\ UNCHANGED << store, hasRO, parentProps, measure, events, rIn, rOut >>

Mount ==
    /\ coord.phase = "initial"
    /\ RenderCoordinator(TRUE)

\* export default memo(NodeRenderer), line 231: a parent render re-renders
\* NodeRenderer iff its props differ shallowly; a store notification
\* re-renders it in any case.
Rerender ==
    /\ coord.phase = "mounted"
    /\ IF coord.dirty THEN TRUE ELSE ~shallow(coord.props[1], parentProps)
    /\ RenderCoordinator(FALSE)

\* lines 70-74: the effect cleanup, resizeObserverRef?.current?.disconnect().
Teardown(obs, ref) ==
    IF IsSome(ref)
    THEN [obs EXCEPT ![ref[1]] = [@ EXCEPT !.targets = {}, !.disconnects = @ + 1]]
    ELSE obs

\* React commits the unmount: the instance and its subtree are removed.  The
\* disconnect of lines 70-74 is the cleanup of a useEffect, a passive effect:
\* React does not run it inside the commit but in a later task, and so it is
\* a step of its own (EffectCleanup).  Until then the observer stays
\* connected and keeps its targets, as the effect cleanups of the removed
\* visual components are pending as well.
Unmount ==
    /\ coord.phase = "mounted"
    /\ coord' = [coord EXCEPT !.phase = "unmounted", !.dirty = FALSE]
    /\ children' = << >>
    /\ pres' = [id \in NodeIds |-> NoPresenter]
    /\ UNCHANGED << store, hasRO, parentProps, childProps, observers, measure,
                    events, rIn, rOut >>

\* React runs the pending cleanup of the effect of lines 70-74, in a later
\* task than the commit of the unmount.
EffectCleanup ==
    /\ coord.phase = "unmounted"
    /\ coord' = [coord EXCEPT !.phase = "released"]
    /\ observers' = Teardown(observers, coord.resizeObserverRef)
    /\ UNCHANGED << store, hasRO, parentProps, children, childProps, pres, measure,
                    events, rIn, rOut >>

\* The parent re-renders and passes different props.
ParentRender(p) ==
    /\ coord.phase = "mounted"
    /\ events < MaxEvents
    /\ p # parentProps
    /\ parentProps' = p
    /\ events' = events + 1
    /\ UNCHANGED << store, hasRO, coord, children, childProps, pres, observers,
                    measure, rIn, rOut >>

----------------------------------------------------------------------------
(* NodeComponentWrapper instances.                                         *)

\* memo(...) at line 132: a parent render is skipped iff the props are
\* shallowly equal to those of the last render.
MemoSkips(prev, next) == shallow(prev, next)

\* Is a render of the presenter of id due?  On its first render, after a
\* notification of its store subscription, or when the parent rendered it
\* with props that memo does not skip.
RenderDue(id) ==
    IF pres[id].renders = 0 \/ pres[id].dirty THEN TRUE
    ELSE ~MemoSkips(pres[id].props[1], childProps[1])

PresenterRender(id) ==
    /\ coord.phase = "mounted"
    /\ pres[id].mounted
    /\ RenderDue(id)
    /\ LET node == NodeSelector(store, id)
           out  == NodeComponentWrapper(childProps[1], node)
       IN  pres' = [pres EXCEPT ![id] =
                      [mounted |-> TRUE, renders |-> pres[id].renders + 1,
                       dirty |-> FALSE, node |-> node,
                       props |-> childProps, out |-> Some(out)]]
    /\ UNCHANGED << store, hasRO, parentProps, coord, children, childProps,
                    observers, measure, events, rIn, rOut >>

\* The visual component observes its element with the observer it was
\* given (resizeObserver?.observe(element) in its mount effect).
Observe(id) ==
    /\ coord.phase = "mounted"
    /\ pres[id].mounted
    /\ IsSome(pres[id].out)
    /\ IsSome(pres[id].out[1].element)
    /\ IsSome(pres[id].out[1].element[1].resizeObserver)
    /\ LET o == pres[id].out[1].element[1].resizeObserver[1]
       IN  /\ Element(id) \notin observers[o].targets
           /\ observers' = [observers EXCEPT ![o].targets = @ \cup {Element(id)}]
    /\ UNCHANGED << store, hasRO, parentProps, coord, children, childProps, pres,
                    measure, events, rIn, rOut >>

\* Is the visual component of id mounted (its presenter's last render
\* returned an element)?
VisualMounted(id) ==
    /\ pres[id].mounted
    /\ pres[id].renders > 0
    /\ IsSome(pres[id].out[1].element)

\* The visual component of id was unmounted (the presenter rendered null or
\* was removed) and the cleanup of its effect stops observing the element.
\* Like every effect cleanup it runs in a later task than the commit that
\* unmounted the component; the cleanups pending at the unmount of
\* NodeRenderer run together with EffectCleanup.
Unobserve(id) ==
    /\ coord.phase = "mounted"
    /\ ~VisualMounted(id)
    /\ \E o \in 1..Len(observers) : Element(id) \in observers[o].targets
    /\ observers' = [o \in 1..Len(observers) |->
                        [observers[o] EXCEPT !.targets = @ \ {Element(id)}]]
    /\ UNCHANGED << store, hasRO, parentProps, coord, children, childProps, pres,
                    measure, events, rIn, rOut >>

\* The sequences of distinct elements of a set, of length 1..Cardinality.
RECURSIVE Arrangements(_)
Arrangements(S) ==
    IF S = {} THEN { << >> }
    ELSE UNION { {<<x>> \o q : q \in Arrangements(S \ {x})} : x \in S }
Batches(targets) ==
    UNION { Arrangements(T) : T \in (SUBSET targets) \ {{}} }

\* The platform delivers a batch of entries, one per changed target, to the
\* callback of observer o, whatever the phase of the coordinator (the
\* callback has no mounted check); a disconnected observer has no targets.  The
\* callback ends with the call of line 62, which writes the store.
ObserverCallback(o) ==
    /\ o \in 1..Len(observers)
    /\ events < MaxEvents
    /\ events' = events + 1
    /\ \E b \in Batches(observers[o].targets) :
          LET entries == [i \in 1..Len(b) |-> [target |-> b[i]]]
              calls   == ObserverCallbackCalls(observers[o].fn, entries)
              t       == StoreAfterCalls(store, calls, Len(calls), FreshVer)
          IN  /\ measure' = [batch |-> entries, calls |-> calls,
                             invocations |-> measure.invocations + 1,
                             issued |-> measure.issued + Len(calls),
                             phase |-> coord.phase,
                             current |-> store.updateNodeDimensions]
              /\ store' = t
              /\ Subscribers(t)
    /\ UNCHANGED << hasRO, parentProps, children, childProps, observers, rIn, rOut >>

----------------------------------------------------------------------------
(* The observer callback on its own: one batch, lines 50-63.               *)

\* The longest batch delivered to the callback.
MaxBatch == 3

\* The DOM elements a batch may report, each at most once per batch, and
\* the value of data-id an element may carry: several elements may carry
\* the same id.
ElementNames == << "e1", "e2", "e3", "e4" >>
BatchElements == {ElementNames[i] : i \in 1..MaxBatch}
BatchTargets == {[dataId |-> d, el |-> e] : d \in NodeIds, e \in BatchElements}

\* The batches of 1..MaxBatch entries over distinct elements.
EntryBatches ==
    UNION { { [i \in 1..Len(q) |-> [target |-> [dataId |-> ids[i], el |-> q[i]]]]
                : ids \in [1..Len(q) -> NodeIds] }
            : q \in Batches(BatchElements) }

InitBatch ==
    /\ store = InitialStore({"n1", "n2"})
    /\ hasRO = TRUE
    /\ parentProps = BaseProps
    /\ coord = [phase |-> "initial", renders |-> 0, dirty |-> FALSE,
                props |-> None, resizeObserver |-> None, resizeObserverRef |-> None]
    /\ children = << >>
    /\ childProps = None
    /\ pres = [id \in NodeIds |-> NoPresenter]
    /\ observers = << [fn |-> store.updateNodeDimensions, targets |-> {},
                       disconnects |-> 0] >>
    /\ \E b \in EntryBatches :
          measure = [batch |-> b, calls |-> << >>, invocations |-> 0, issued |-> 0,
                     phase |-> "initial", current |-> 0]
    /\ events = 0
    /\ rIn = None
    /\ rOut = << >>

\* The callback runs on the batch; its call of line 62 writes the store.
DeliverBatch ==
    /\ measure.invocations = 0
    /\ LET calls == ObserverCallbackCalls(observers[1].fn, measure.batch)
           t     == StoreAfterCalls(store, calls, Len(calls), FreshVer)
       IN  /\ measure' = [measure EXCEPT !.calls = calls, !.invocations = 1,
                                         !.issued = Len(calls),
                                         !.current = store.updateNodeDimensions]
           /\ store' = t
           /\ Subscribers(t)
    /\ UNCHANGED << hasRO, parentProps, children, childProps, observers,
                    events, rIn, rOut >>

NextBatch == DeliverBatch

SpecBatch == InitBatch /\ [][NextBatch]_vars

----------------------------------------------------------------------------
(* The lifecycle specification.                                            *)

StoreWrite ==
    \/ \E id \in NodeIds : AddNode(id) \/ RemoveNode(id) \/ ReplaceNode(id)
    \/ \E f \in Flags : SetFlag(f)
    \/ SetUpdateNodeDimensions
    \/ SetOnError

Next ==
    \/ StoreWrite
    \/ Mount
    \/ Rerender
    \/ Unmount
    \/ EffectCleanup
    \/ \E p \in PropChoices : ParentRender(p)
    \/ \E id \in NodeIds : PresenterRender(id)
    \/ \E id \in NodeIds : Observe(id)
    \/ \E id \in NodeIds : Unobserve(id)
    \/ \E o \in 1..2 : ObserverCallback(o)

Spec == Init /\ [][Next]_vars

----------------------------------------------------------------------------
(* The presenter render as a function of its inputs: the inputs are drawn  *)
(* in the initial state and NodeComponentWrapper is applied to them twice. *)

TriState == {None, Some(TRUE), Some(FALSE)}
TypeOptions ==
    {None, Some(""), Some("default"), Some("custom"), Some("unknown"),
     Some("constructor"), Some("toString")}
Registries == {StandardTypes, CustomTypes}
OnErrorOptions == {None, Some("onError")}
PositionOptions ==
    {None, Some([x |-> 10, y |-> 20]), Some([x |-> 150, y |-> 50]), Some([x |-> -5, y |-> 120])}
ExtentOptions ==
    {None, Some(<< <<0, 0>>, <<100, 100>> >>), Some(<< <<20, 30>>, <<100, 100>> >>)}
DimensionOptions == {None, Some(0), Some(100)}
OriginOptions == {None, Some(<<1, 1>>), Some(<<0, 1>>), Some(<<2, 0>>)}

\* Inputs that vary the type resolution and the capabilities.
CapabilityInputs ==
    { [ props |-> [ChildProps([BaseProps EXCEPT !.nodeTypes = reg], 
                              [nodesDraggable |-> fl[1], nodesConnectable |-> fl[2],
                               nodesFocusable |-> fl[3], elementsSelectable |-> fl[4],
                               onError |-> cb],
                              None) EXCEPT !.resizeObserver = Some(1)],
        node  |-> Some([BaseNode("n1", 0) EXCEPT
                      !.type = ty, !.draggable = cap[1], !.connectable = cap[2],
                      !.focusable = cap[3], !.selectable = cap[4]]) ] :
      reg \in Registries, fl \in BOOLEAN \X BOOLEAN \X BOOLEAN \X BOOLEAN,
      cb \in OnErrorOptions, ty \in TypeOptions,
      cap \in TriState \X TriState \X TriState \X TriState }

\* Inputs that vary the geometry.
GeometryInputs ==
    { [ props |-> ChildProps([BaseProps EXCEPT !.nodeExtent = ext, !.nodeOrigin = po],
                             selector(InitialStore({"n1"})), None),
        node  |-> Some([BaseNode("n1", 0) EXCEPT
                      !.positionAbsolute = pos, !.origin = no,
                      !.width = d[1], !.height = d[2],
                      !.computedWidth = d[3], !.computedHeight = d[4]]) ] :
      ext \in ExtentOptions, po \in {None, Some(<<0, 0>>), Some(<<1, 0>>)},
      pos \in PositionOptions, no \in OriginOptions,
      d \in DimensionOptions \X DimensionOptions \X DimensionOptions \X DimensionOptions }

\* Inputs whose lookup misses (line 155).
MissingInputs ==
    { [props |-> i.props, node |-> None] : i \in CapabilityInputs }

\* node is the result of s.nodeLookup.get(props.id): Some(record) or None.
RenderInputs == CapabilityInputs \cup GeometryInputs \cup MissingInputs

InitRender ==
    /\ store = InitialStore({"n1"})
    /\ hasRO = FALSE
    /\ parentProps = BaseProps
    /\ coord = [phase |-> "initial", renders |-> 0, dirty |-> FALSE,
                props |-> None, resizeObserver |-> None, resizeObserverRef |-> None]
    /\ children = << >>
    /\ childProps = None
    /\ pres = [id \in NodeIds |-> NoPresenter]
    /\ observers = << >>
    /\ measure = [batch |-> << >>, calls |-> << >>, invocations |-> 0, issued |-> 0,
                  phase |-> "initial", current |-> 0]
    /\ events = 0
    /\ rIn \in { Some(i) : i \in RenderInputs }
    /\ rOut = << >>

ResolveNode ==
    /\ rOut = << >>
    /\ rOut' = << NodeComponentWrapper(rIn[1].props, rIn[1].node) >>
    /\ UNCHANGED << lifecycleVars, rIn >>

\* A second render of the same record, with no store write in between.
ResolveAgain ==
    /\ Len(rOut) = 1
    /\ rOut' = Append(rOut, NodeComponentWrapper(rIn[1].props, rIn[1].node))
    /\ UNCHANGED << lifecycleVars, rIn >>

NextRender == ResolveNode \/ ResolveAgain

SpecRender == InitRender /\ [][NextRender]_vars

----------------------------------------------------------------------------
(* Properties of the lifecycle specification Spec.                         *)

\* The id list the coordinator's subscription currently selects.
SubscribedIds(s) == VisibleNodeIds(s, coord.props[1].onlyRenderVisibleElements)

Rendered(id) == pres[id].mounted /\ pres[id].renders > 0

\* What one step may do to the presenter of each id a.
C1_Step ==
    \A a \in NodeIds :
       /\ (Rendered(a) /\ store' # store /\ SameNode(store.nodeLookup[a], store'.nodeLookup[a]))
             => /\ pres'[a].dirty = pres[a].dirty
                /\ pres'[a].renders = pres[a].renders
       /\ (Rendered(a) /\ pres'[a].renders > pres[a].renders)
             => (pres[a].dirty \/ pres[a].props # childProps)
       /\ (Rendered(a) /\ pres'[a].dirty /\ ~pres[a].dirty)
             => ~SameNode(store.nodeLookup[a], store'.nodeLookup[a])

\* C1: presenter render isolation.  A store write that leaves
\* nodeLookup.get(A) identical neither schedules nor performs a render of
\* A's presenter, whatever it does to other nodes; and a rendered presenter
\* renders again only after its own record changed identity (a scheduled
\* store notification) or when the props supplied by the coordinator differ
\* from those of its last render.
C1_PresenterIsolation == [][C1_Step]_vars

\* C1 witness: n2's record was replaced (its presenter is notified) while
\* n1's presenter, rendered once on the initial record, is left alone.
C1_Witness ==
    /\ Rendered("n1") /\ Rendered("n2")
    /\ pres["n1"].renders = 1 /\ ~pres["n1"].dirty
    /\ pres["n2"].dirty
    /\ IsSome(store.nodeLookup["n2"]) /\ store.nodeLookup["n2"][1].ver > 0
    /\ store.nodeLookup["n1"] = pres["n1"].node

\* What one step may do to a mounted coordinator.
C2_Step ==
    coord.phase = "mounted" =>
       /\ (store' # store /\ SubscribedIds(store') = SubscribedIds(store)
              /\ selector(store') = selector(store))
             => /\ coord'.dirty = coord.dirty
                /\ coord'.renders = coord.renders
       /\ (coord'.renders > coord.renders)
             => (coord.dirty \/ parentProps # coord.props[1])
       /\ (SubscribedIds(store') # SubscribedIds(store)) => coord'.dirty

\* C2: coordinator render minimisation.  A store write that changes neither
\* the visible id list nor any of the six selected fields neither schedules
\* nor performs a coordinator render; the coordinator renders again only
\* after a scheduled notification or a change of its own props; and a write
\* that adds or removes a visible id schedules a render.
C2_CoordinatorMinimal == [][C2_Step]_vars

\* C2 witness: a node record was replaced by a write and the coordinator,
\* rendered once, has no render scheduled.
C2_Witness ==
    /\ coord.phase = "mounted" /\ coord.renders = 1 /\ ~coord.dirty
    /\ events > 0
    /\ \E id \in NodeIds :
          IsSome(store.nodeLookup[id]) /\ store.nodeLookup[id][1].ver > 0

NoDuplicates(q) == \A i, j \in 1..Len(q) : q[i] = q[j] => i = j

\* The children after a step that renders the coordinator.
C3_Step ==
    coord'.renders > coord.renders =>
       /\ children' = VisibleNodeIds(store', parentProps'.onlyRenderVisibleElements)
       /\ NoDuplicates(children')
       /\ \A id \in NodeIds : pres'[id].mounted <=> id \in SeqToSet(children')

\* C3: after every coordinator render the rendered children are exactly one
\* presenter per id of the visible id list read by that render, in the
\* list's order and keyed by the id; presenters exist for exactly these ids.
C3_OnePresenterPerId == [][C3_Step]_vars

\* C3 witness: after a removal and an addition the coordinator rendered
\* again and holds the presenters in the new order of the list.
C3_Witness ==
    /\ coord.phase = "mounted" /\ coord.renders >= 2 /\ ~coord.dirty
    /\ children = <<"n2", "n1">>
    /\ pres["n1"].mounted /\ pres["n2"].mounted

BatchIds(entries) == {entries[i].target.dataId : i \in 1..Len(entries)}

\* The state after any number of callbacks: one call per invocation, its
\* mapping holding every distinct id of the batch.
C4_Inv ==
    /\ measure.issued = measure.invocations
    /\ measure.invocations > 0 =>
          /\ Len(measure.calls) = 1
          /\ \A i \in 1..Len(measure.calls) :
                DOMAIN measure.calls[i].updates = BatchIds(measure.batch)

\* The step of a callback: the store gets the measured size for every id
\* of the batch that has a record, in that one step, and no other record
\* changes.
C4_Step ==
    measure'.invocations > measure.invocations =>
       \A id \in NodeIds :
          IF id \in BatchIds(measure'.batch) /\ IsSome(store.nodeLookup[id])
          THEN /\ IsSome(store'.nodeLookup[id])
               /\ store'.nodeLookup[id][1].computedWidth = Some(Measured.width)
               /\ store'.nodeLookup[id][1].computedHeight = Some(Measured.height)
               /\ ~SameNode(store.nodeLookup[id], store'.nodeLookup[id])
          ELSE store'.nodeLookup[id] = store.nodeLookup[id]

\* C4: batch atomicity.  Every invocation of the observer callback issues
\* exactly one updateNodeDimensions call, and the mapping of that call has
\* an entry for every distinct id of the batch: no call carries a proper
\* subset of the batch's ids, and the store receives the update of every
\* id of the batch in one step, never of a part of them.
C4_BatchAtomicity == [](C4_Inv) /\ [][C4_Step]_vars

\* C4 witness: a batch touching both ids was delivered and both records
\* carry the measured size.
C4_Witness ==
    /\ measure.invocations > 0
    /\ BatchIds(measure.batch) = {"n1", "n2"}
    /\ \A id \in NodeIds :
          /\ IsSome(store.nodeLookup[id])
          /\ store.nodeLookup[id][1].computedWidth = Some(Measured.width)

\* The observers constructed, and their disconnect counts, by phase.
C5_Inv ==
    /\ Len(observers) <= 1
    /\ \A o \in 1..Len(observers) :
          observers[o].disconnects = (IF coord.phase = "released" THEN 1 ELSE 0)
\* The steps that construct or disconnect an observer.
C5_Step ==
    /\ Len(observers') # Len(observers)
          => (coord.phase = "initial" /\ coord'.phase = "mounted")
    /\ (\E o \in 1..Len(observers) :
           o <= Len(observers') /\ observers'[o].disconnects # observers[o].disconnects)
          => (coord.phase = "unmounted" /\ coord'.phase = "released")

\* C5: observer singleton lifecycle.  At most one observer is ever
\* constructed; it is not disconnected before the teardown (the effect
\* cleanup that follows the unmount) and has been disconnected exactly once
\* after it; no presenter render constructs or disconnects an observer, and
\* construction happens only in the mounting render, disconnection only in
\* the teardown.
C5_ObserverSingleton == [](C5_Inv) /\ [][C5_Step]_vars

\* C5 witness: mounted, re-rendered, unmounted and torn down, with the one
\* observer disconnected once.
C5_Witness ==
    /\ coord.phase = "released" /\ coord.renders >= 2
    /\ Len(observers) = 1 /\ observers[1].disconnects = 1

C7_MissingNode ==
    \A id \in NodeIds :
       (Rendered(id) /\ ~IsSome(pres[id].node)) =>
          /\ pres[id].out[1].element = None
          /\ pres[id].out[1].errors = << >>
          /\ ~pres[id].out[1].thrown

\* C7 witness: the id is in the list the coordinator rendered, the record
\* was removed from the lookup, and the presenter rendered on the miss.
C7_Witness ==
    \E id \in NodeIds :
       /\ id \in SeqToSet(children)
       /\ Rendered(id) /\ ~IsSome(pres[id].node)
       /\ ~IsSome(store.nodeLookup[id])

\* C10: measurement capability absent.  Without ResizeObserver no observer
\* is ever constructed, every presenter is given null and forwards null, no
\* updateNodeDimensions call is issued, the error callback is invoked only
\* for unregistered types, and nothing is disconnected at the unmount.
C10_NoResizeObserver ==
    ~hasRO =>
       /\ observers = << >>
       /\ coord.resizeObserver = None /\ coord.resizeObserverRef = None
       /\ IsSome(childProps) => childProps[1].resizeObserver = None
       /\ measure.issued = 0 /\ measure.invocations = 0
       /\ \A id \in NodeIds : Rendered(id) =>
             /\ pres[id].props[1].resizeObserver = None
             /\ ~pres[id].out[1].thrown
             /\ IsSome(pres[id].out[1].element) =>
                   /\ pres[id].out[1].element[1].resizeObserver = None
                   /\ (pres[id].out[1].errors # << >>
                          => TypeMissing(pres[id].props[1], pres[id].node[1]))

\* C10 witness: a runtime without ResizeObserver in which the coordinator
\* rendered twice, was unmounted and torn down.
C10_Witness ==
    /\ ~hasRO
    /\ coord.phase = "released" /\ coord.renders >= 2

----------------------------------------------------------------------------
(* Properties of the presenter render, specification SpecRender.           *)

\* The element of the first render, when there is one.
HasElement == Len(rOut) >= 1 /\ IsSome(rIn[1].node)

\* effective = node.value === undefined ? collectionDefault : node.value
Effective(nodeValue, collectionFlag) ==
    IF nodeValue = None THEN collectionFlag ELSE nodeValue[1]

\* C8: capability resolution.  Each of the four effective capabilities
\* passed to the visual component is the collection flag when the node's
\* value is undefined and the node's own value when it is set.
C8_CapabilityResolution ==
    HasElement =>
       LET e == rOut[1].element[1]
           n == rIn[1].node[1]
           p == rIn[1].props
       IN  /\ e.isDraggable   = Effective(n.draggable, p.nodesDraggable)
           /\ e.isSelectable  = Effective(n.selectable, p.elementsSelectable)
           /\ e.isConnectable = Effective(n.connectable, p.nodesConnectable)
           /\ e.isFocusable   = Effective(n.focusable, p.nodesFocusable)

\* C8 witness: a node that pins draggable to false under a true collection
\* flag, and leaves focusable to a false collection flag.
C8_Witness ==
    /\ HasElement
    /\ rIn[1].node[1].draggable = Some(FALSE) /\ rIn[1].props.nodesDraggable
    /\ rIn[1].node[1].focusable = None /\ ~rIn[1].props.nodesFocusable
    /\ rIn[1].node[1].selectable = Some(TRUE) /\ ~rIn[1].props.elementsSelectable

\* The type name the claim speaks of: node.type, or "default" when absent.
ClaimedTypeName(n) == IF n.type = None \/ n.type = Some("") THEN "default" ELSE n.type[1]

\* C9 as stated: unknown node type.  A render with a configured error
\* callback calls it iff the resolved type name is no key of the registry, then exactly once
\* with code "003" and the message built from that name; the component
\* rendered is then the registry's "default" entry; a render never throws
\* and makes no call when no callback is configured.
C9_UnknownType ==
    HasElement =>
       LET out     == rOut[1]
           n       == rIn[1].node[1]
           p       == rIn[1].props
           unknown == ClaimedTypeName(n) \notin DOMAIN p.nodeTypes
       IN  /\ ~out.thrown
           /\ (out.errors # << >>) <=> (unknown /\ p.onError # None)
           /\ (unknown /\ p.onError # None) =>
                 out.errors = << [callback |-> p.onError[1], code |-> "003",
                                  message |-> error003(ClaimedTypeName(n))] >>
           /\ unknown => out.element[1].component = Some(p.nodeTypes["default"])

\* The extent rectangle contains the point.
InsideExtent(pt, extent) ==
    /\ extent[1][1] <= pt.x /\ pt.x <= extent[2][1]
    /\ extent[1][2] <= pt.y /\ pt.y <= extent[2][2]

\* The nearest value to v in the interval lo..hi.
Nearest(v, lo, hi) == IF v < lo THEN lo ELSE IF v > hi THEN hi ELSE v

\* Has the first render returned an element for a node without a computed
\* absolute position?
MissingPosition == HasElement /\ rIn[1].node[1].positionAbsolute = None

\* The position given to the visual component is the point pt.
PassedPosition(pt) ==
    /\ rOut[1].element[1].xPos = pt.x
    /\ rOut[1].element[1].yPos = pt.y
    /\ rOut[1].element[1].positionAbsolute = pt

Origin == [x |-> 0, y |-> 0]

\* C11 as stated: a node without an absolute position is passed (0,0),
\* whether or not an extent is configured and whatever its bounds.
C11_AlwaysOrigin == MissingPosition => PassedPosition(Origin)

\* C11 as amended: a node without an absolute position is passed (0,0) when
\* no extent is configured, and (0,0) clamped into the extent when one is:
\* (0,0) itself exactly when the extent contains the origin.
C11_MissingPositionDefault ==
    MissingPosition =>
       LET ext == rIn[1].props.nodeExtent
       IN  IF ext = None THEN PassedPosition(Origin)
           ELSE /\ PassedPosition([x |-> Nearest(0, ext[1][1][1], ext[1][2][1]),
                                   y |-> Nearest(0, ext[1][1][2], ext[1][2][2])])
                /\ PassedPosition(Origin) <=> InsideExtent(Origin, ext[1])

\* C11 witness: no absolute position, and an extent that excludes the
\* origin.
C11_Witness ==
    /\ MissingPosition
    /\ rIn[1].props.nodeExtent # None
    /\ ~InsideExtent(Origin, rIn[1].props.nodeExtent[1])

\* C12: position clamping.  For a node with an absolute position, with an
\* extent the position passed lies inside the extent, each coordinate being
\* the nearest one of the extent's interval, and is the absolute position
\* itself when that lies inside; without an extent the absolute position is
\* passed unchanged.
C12_PositionClamping ==
    (HasElement /\ rIn[1].node[1].positionAbsolute # None) =>
       LET ext == rIn[1].props.nodeExtent
           pos == rIn[1].node[1].positionAbsolute[1]
           out == rOut[1].element[1].positionAbsolute
       IN  IF ext = None THEN PassedPosition(pos)
           ELSE /\ InsideExtent(out, ext[1])
                /\ PassedPosition([x |-> Nearest(pos.x, ext[1][1][1], ext[1][2][1]),
                                   y |-> Nearest(pos.y, ext[1][1][2], ext[1][2][2])])
                /\ InsideExtent(pos, ext[1]) => PassedPosition(pos)

\* C12 witness: (150, 50) under the extent x:[0,100], y:[0,100] is passed
\* as (100, 50).
C12_Witness ==
    /\ HasElement
    /\ rIn[1].node[1].positionAbsolute = Some([x |-> 150, y |-> 50])
    /\ rIn[1].props.nodeExtent = Some(<< <<0, 0>>, <<100, 100>> >>)
    /\ PassedPosition([x |-> 100, y |-> 50])

\* The observer constructed by the mounting render of the coordinator: the
\* first ResizeObserver instance where the platform has the constructor,
\* null where it has not.
FirstRenderObserver == IF hasRO THEN Some(1) ELSE None

\* C13: shared observer identity.  Once the coordinator has rendered, the
\* observer of its latest render, the observer carried by the elements it
\* returned, the observer every presenter received on its latest render and
\* the observer every presenter passed to its visual component are all the
\* reference constructed on the first render (or null).
C13_SharedObserver ==
    coord.renders > 0 =>
       /\ coord.resizeObserver = FirstRenderObserver
       /\ childProps[1].resizeObserver = FirstRenderObserver
       /\ \A id \in NodeIds :
             pres[id].renders > 0 =>
                /\ pres[id].props[1].resizeObserver = FirstRenderObserver
                /\ IsSome(pres[id].out[1].element) =>
                      pres[id].out[1].element[1].resizeObserver = FirstRenderObserver

\* C13 witness: after a flag change and a change of the id list have each
\* re-rendered the coordinator, a presenter rendered again and passed the
\* first observer to its visual component.
C13_Witness ==
    /\ hasRO
    /\ coord.renders >= 3
    /\ ~store.nodesDraggable
    /\ \E id \in NodeIds :
          /\ pres[id].renders >= 2
          /\ IsSome(pres[id].out[1].element)
          /\ pres[id].out[1].element[1].resizeObserver = Some(1)

\* The lifecycle driven by store writes alone (no parent prop changes, no
\* measurement; a platform with ResizeObserver), under React's scheduling: a render that is due (of the
\* coordinator or of a presenter) is eventually performed unless it stops
\* being due, and so is a pending effect cleanup.
NextStore ==
    \/ StoreWrite
    \/ Mount
    \/ Rerender
    \/ Unmount
    \/ EffectCleanup
    \/ \E id \in NodeIds : PresenterRender(id)

InitStore == Init /\ hasRO

FairSpec ==
    /\ InitStore
    /\ [][NextStore]_vars
    /\ WF_vars(Rerender)
    /\ WF_vars(EffectCleanup)
    /\ \A id \in NodeIds : WF_vars(PresenterRender(id))

\* Per collection-wide flag: the node field that overrides it and the
\* capability prop of the visual component it resolves to.
NodeFieldOf(f) ==
    CASE f = "nodesDraggable"     -> "draggable"
      [] f = "nodesConnectable"   -> "connectable"
      [] f = "nodesFocusable"     -> "focusable"
      [] f = "elementsSelectable" -> "selectable"
CapabilityOf(f) ==
    CASE f = "nodesDraggable"     -> "isDraggable"
      [] f = "nodesConnectable"   -> "isConnectable"
      [] f = "nodesFocusable"     -> "isFocusable"
      [] f = "elementsSelectable" -> "isSelectable"

\* The presenter of id is mounted, its node leaves the per-node value for
\* flag f undefined, and its visual component has the store's value of f as
\* that capability.
ShowsFlag(id, f) ==
    /\ pres[id].renders > 0
    /\ IsSome(pres[id].out[1].element)
    /\ pres[id].out[1].element[1][CapabilityOf(f)] = store[f]

\* The presenter of id is mounted for a node that leaves the per-node value
\* for f undefined, and its visual component does not have the store's
\* value of f.
AwaitsFlag(id, f) ==
    /\ coord.phase = "mounted"
    /\ pres[id].mounted
    /\ IsSome(store.nodeLookup[id])
    /\ ~IsSome(store.nodeLookup[id][1][NodeFieldOf(f)])
    /\ ~ShowsFlag(id, f)

\* Across a store write: a changed flag schedules a render of the mounted
\* coordinator, and a write that leaves the six selected fields and the id
\* list alone schedules none.
C14_Step ==
    (store' # store /\ coord.phase = "mounted") =>
       /\ (\E f \in Flags : store'[f] # store[f]) => coord'.dirty
       /\ ( /\ selector(store') = selector(store)
            /\ VisibleNodeIds(store', coord.props[1].onlyRenderVisibleElements)
                 = VisibleNodeIds(store, coord.props[1].onlyRenderVisibleElements) )
          => coord'.dirty = coord.dirty

\* C14: flag propagation.  A change of a collection-wide flag in the store
\* schedules a render of the coordinator, which is eventually performed, and
\* every mounted presenter whose node leaves the per-node value undefined
\* eventually passes the store's flag value as the capability to its visual
\* component; a store write that changes none of the six selected fields
\* (nor the id list) schedules no render of the coordinator.
C14_FlagPropagation ==
    /\ [][C14_Step]_vars
    /\ []<>(~coord.dirty /\ \A id \in NodeIds : \A f \in Flags : ~AwaitsFlag(id, f))

\* C14 witness: a flag was switched off in the store, the coordinator
\* rendered again, and a presenter whose node leaves the value undefined
\* rendered again and passes FALSE.
C14_Witness ==
    /\ coord.phase = "mounted"
    /\ coord.renders >= 2
    /\ ~coord.dirty
    /\ \E f \in Flags : \E id \in NodeIds :
          /\ ~store[f]
          /\ pres[id].mounted
          /\ pres[id].renders >= 2
          /\ IsSome(store.nodeLookup[id])
          /\ ~IsSome(store.nodeLookup[id][1][NodeFieldOf(f)])
          /\ ShowsFlag(id, f)
          /\ ~pres[id].out[1].element[1][CapabilityOf(f)]

\* The position of the last entry of the batch whose element carries id.
LastEntryOf(entries, id) ==
    CHOOSE i \in 1..Len(entries) :
       /\ entries[i].target.dataId = id
       /\ \A j \in (i + 1)..Len(entries) : entries[j].target.dataId # id

\* C15: batch staging.  The mapping handed to the store by one callback has
\* exactly the distinct ids of the batch as its keys, and the record of
\* each id carries that id, the element of the last entry of the batch with
\* that id, and forceUpdate = true.
C15_BatchStaging ==
    measure.invocations > 0 =>
       LET updates == measure.calls[1].updates
       IN  /\ DOMAIN updates = BatchIds(measure.batch)
           /\ \A id \in DOMAIN updates :
                 /\ updates[id].id = id
                 /\ updates[id].nodeElement.dataId = id
                 /\ updates[id].nodeElement =
                       measure.batch[LastEntryOf(measure.batch, id)].target
                 /\ updates[id].forceUpdate = TRUE
                 /\ DOMAIN updates[id] = {"id", "nodeElement", "forceUpdate"}

\* C15 witness: a batch of three entries in which two different elements
\* carry the same id was staged as two records, the later element kept.
C15_Witness ==
    /\ measure.invocations > 0
    /\ Len(measure.batch) = 3
    /\ measure.batch[1].target.dataId = "n1"
    /\ measure.batch[2].target.dataId = "n2"
    /\ measure.batch[3].target.dataId = "n1"
    /\ measure.batch[1].target.el # measure.batch[3].target.el
    /\ DOMAIN measure.calls[1].updates = {"n1", "n2"}
    /\ measure.calls[1].updates["n1"].nodeElement = measure.batch[3].target

\* A dimension that is defined and not zero.
DimensionPresent(d) == d # None /\ d[1] # 0

\* C16: initialized flag.  The initialized value passed to the visual
\* component is true iff computed width and computed height are both
\* present and non-zero, or authored width and authored height are; with
\* only one dimension of each pair, or with a zero dimension in both pairs,
\* it is false.
C16_InitializedFlag ==
    HasElement =>
       LET n == rIn[1].node[1]
           computedPair == DimensionPresent(n.computedWidth) /\ DimensionPresent(n.computedHeight)
           authoredPair == DimensionPresent(n.width) /\ DimensionPresent(n.height)
           zeroIn(a, b) == a = Some(0) \/ b = Some(0)
       IN  /\ rOut[1].element[1].initialized = (computedPair \/ authoredPair)
           /\ (zeroIn(n.computedWidth, n.computedHeight) /\ zeroIn(n.width, n.height))
                 => ~rOut[1].element[1].initialized

\* C16 witness: a node with a computed width and an authored height only
\* was rendered as not initialized.
C16_Witness ==
    /\ HasElement
    /\ rIn[1].node[1].computedWidth = Some(100)
    /\ rIn[1].node[1].computedHeight = None
    /\ rIn[1].node[1].width = None
    /\ rIn[1].node[1].height = Some(100)
    /\ ~rOut[1].element[1].initialized

\* C18 as stated: the type name passed to the visual component is a key of
\* the type registry: node.type when that is registered, "default" when node.type is
\* absent or unregistered; an unregistered name is never passed, and the
\* component rendered is the registry's entry for the name passed.
C18_TypeIsRegistered ==
    HasElement =>
       LET n          == rIn[1].node[1]
           reg        == rIn[1].props.nodeTypes
           passed     == rOut[1].element[1].type
           registered == n.type # None /\ n.type[1] \in DOMAIN reg
       IN  /\ passed \in DOMAIN reg
           /\ registered => passed = n.type[1]
           /\ ~registered => passed = "default"
           /\ rOut[1].element[1].component = Some(reg[passed])

\* Across every step: the mounting render constructs the observer around
\* the store's updateNodeDimensions of that moment, no step rebinds an
\* observer, and a callback calls the function its observer was constructed
\* around.
C19_Step ==
    /\ (coord.phase = "initial" /\ coord'.phase = "mounted" /\ hasRO) =>
          /\ Len(observers') = 1
          /\ observers'[1].fn = store.updateNodeDimensions
          /\ coord'.resizeObserverRef = Some(1)
    /\ \A o \in 1..Len(observers) :
          Len(observers') >= o /\ observers'[o].fn = observers[o].fn
    /\ measure'.invocations > measure.invocations =>
          /\ IsSome(coord.resizeObserverRef)
          /\ \A i \in 1..Len(measure'.calls) :
                measure'.calls[i].fn = observers[coord.resizeObserverRef[1]].fn

\* C19: the observer callback is bound once, to the updateNodeDimensions
\* function read on the coordinator's first render; after the store
\* replaces that function, and although that re-renders the coordinator,
\* every measurement batch is still delivered to the function captured at
\* the first render and never to the replacement.
C19_StaleFunction == [][C19_Step]_vars

\* C19 witness: the store replaced updateNodeDimensions, the coordinator
\* rendered again, and a batch delivered while the replacement was in the
\* store went to the function of the first render.
C19_Witness ==
    /\ measure.invocations > 0
    /\ coord.renders >= 2
    /\ ~coord.dirty
    /\ measure.current = 2
    /\ store.updateNodeDimensions = 2
    /\ Len(measure.calls) = 1
    /\ measure.calls[1].fn = 1

====
